---- MODULE Spec2Model ----
(***************************************************************************)
(* Model of the ise flow of edalize:                                       *)
(*   src/edalize/flows/ise.py   the flow (stage list, default target)      *)
(*   src/edalize/tools/ise.py   the ise tool (configure, build)            *)
(*   src/edalize/ise.py         the legacy wrapper (documentation)         *)
(* and of the command graph (EdaCommands) and flow base class (Edaflow)    *)
(* they call, which are modelled from the specification.                   *)
(***************************************************************************)
EXTENDS Integers, Sequences, FiniteSets, TLC

VARIABLES
    scenario,      \* which part of the program the behaviour exercises
    cg,            \* "graph": a command graph driven by arbitrary client calls
    last,          \* "graph": the last call made on cg and its outcome
    FLOW,          \* flows.Ise.FLOW, the class attribute
    flows,         \* the flow objects constructed so far, in order
    name,          \* edam["name"]
    files,         \* edam["files"] as supplied by the caller
    part,          \* tool option "part" (a one-entry or empty option map)
    pc,            \* position of Edaflow.configure for the last constructed flow
    node,          \* index of the stage configure_tools is at
    stage_files,   \* the files handed to the stage being configured
    edif_files,    \* tools.Ise.configure: the local list edif_files
    tpos,          \* tools.Ise.configure: number of graph calls already made
    tg,            \* tools.Ise.configure: the local EdaCommands object
    tool_commands, \* tools.Ise.commands (set on line 208)
    fg,            \* the flow's EdaCommands object (Edaflow.commands)
    err,           \* the exception that ended configure, or "ok"
    tool_options,  \* "build": the option map of a tool instance
    self_args,     \* "build": the attribute self.args of the tool instance
    build_result   \* "build": what Ise.build returned

vars == <<scenario, cg, last, FLOW, flows, name, files, part, pc, node,
          stage_files, edif_files, tpos, tg, tool_commands, fg, err,
          tool_options, self_args, build_result>>

(***************************************************************************)
(* Bounds of the model.                                                    *)
(***************************************************************************)
MaxRules == 2
MaxFiles == 2
MaxFlows == 2

(***************************************************************************)
(* Helpers.                                                                *)
(***************************************************************************)
Range(s) == {s[i] : i \in 1..Len(s)}

\* A dict is the set of its <<key, value>> items.
Has(d, k) == \E p \in d : p[1] = k

\* dict.get(k, default)
Get(d, k, default) ==
    IF Has(d, k) THEN (CHOOSE p \in d : p[1] = k)[2] ELSE default

\* str.startswith(prefix)
StartsWith(s, prefix) ==
    /\ Len(s) >= Len(prefix)
    /\ SubSeq(s, 1, Len(prefix)) = prefix

SeqsUpTo(S, n) == UNION {[1..k -> S] : k \in 0..n}

(***************************************************************************)
(* The command graph (EdaCommands).  Its code is not among the sources;    *)
(* it is modelled from sections 3 and 4.3 of the specification.            *)
(***************************************************************************)
\* A graph: rules in insertion order, the default target as a sequence of
\* zero (unset) or one (set) identifiers, and the Open/Finalized state.
EdaCommands == [commands |-> <<>>, default_target |-> <<>>, finalized |-> FALSE]

Rule(command, targets, depends) ==
    [command |-> command, targets |-> Range(targets), depends |-> Range(depends)]

\* rule r declares target t with a recipe different from (command, depends)
Conflicts(r, t, command, depends) ==
    /\ t \in r.targets
    /\ (r.command # command \/ r.depends # Range(depends))

\* the first identifier of targets that an earlier rule declares differently
FirstConflict(g, command, targets, depends) ==
    LET bad == {i \in 1..Len(targets) :
                  \E j \in 1..Len(g.commands) :
                      Conflicts(g.commands[j], targets[i], command, depends)}
    IN IF bad = {} THEN <<>>
       ELSE <<targets[CHOOSE i \in bad : \A k \in bad : i <= k]>>

\* faulty variant of add: the rule is appended even when the graph holds it already
add_AlwaysAppend(g, command, targets, depends) ==
    LET dup == FirstConflict(g, command, targets, depends)
        r   == Rule(command, targets, depends)
    IN IF g.finalized
       THEN [g |-> g, err |-> "GraphFinalized", id |-> <<>>]
       ELSE IF dup # <<>>
       THEN [g |-> g, err |-> "ConflictingRule", id |-> dup]
       ELSE [g |-> [g EXCEPT !.commands = Append(@, r)],
             err |-> "ok", id |-> <<>>]

\* add(command, targets, depends): the graph after the call, the error
\* raised ("ok" when none) and the identifier the error names.
add(g, command, targets, depends) ==
    LET dup == FirstConflict(g, command, targets, depends)
        r   == Rule(command, targets, depends)
    IN IF g.finalized
       THEN [g |-> g, err |-> "GraphFinalized", id |-> <<>>]
       ELSE IF dup # <<>>
       THEN [g |-> g, err |-> "ConflictingRule", id |-> dup]
       ELSE IF \E j \in 1..Len(g.commands) : g.commands[j] = r
       THEN [g |-> g, err |-> "ok", id |-> <<>>]
       ELSE [g |-> [g EXCEPT !.commands = Append(@, r)],
             err |-> "ok", id |-> <<>>]

\* set_default_target(target)
set_default_target(g, target) ==
    IF g.default_target = <<>>
    THEN [g |-> [g EXCEPT !.default_target = <<target>>],
          err |-> "ok", id |-> <<>>]
    ELSE IF g.default_target = <<target>>
    THEN [g |-> g, err |-> "ok", id |-> <<>>]
    ELSE [g |-> g, err |-> "DefaultTargetAlreadySet", id |-> <<target>>]

\* write(destination), the destination being writable
write(g) ==
    [g |-> [g EXCEPT !.finalized = TRUE], err |-> "ok", id |-> <<>>]

\* one call, given as a record, applied to a graph
Apply(g, c) ==
    CASE c.op = "add" -> add(g, c.command, c.targets, c.depends)
      [] c.op = "set_default_target" -> set_default_target(g, c.target)
      [] c.op = "write" -> write(g)

AddCall(command, targets, depends) ==
    [op |-> "add", command |-> command, targets |-> targets,
     depends |-> depends, target |-> ""]
DefaultCall(target) ==
    [op |-> "set_default_target", command |-> <<>>, targets |-> <<>>,
     depends |-> <<>>, target |-> target]
WriteCall ==
    [op |-> "write", command |-> <<>>, targets |-> <<>>,
     depends |-> <<>>, target |-> ""]
NoCall ==
    [op |-> "none", command |-> <<>>, targets |-> <<>>,
     depends |-> <<>>, target |-> ""]

\* the calls of a list applied in order; the first error ends the run
RECURSIVE RunCalls(_, _)
RunCalls(g, calls) ==
    IF calls = <<>> THEN [g |-> g, err |-> "ok", id |-> <<>>]
    ELSE LET r == Apply(g, Head(calls))
         IN IF r.err # "ok" THEN r ELSE RunCalls(r.g, Tail(calls))

\* the rules of a list as add calls (a rule keeps its sets; any order of
\* their elements gives the same rule)
RECURSIVE SetToSeq(_)
SetToSeq(S) ==
    IF S = {} THEN <<>>
    ELSE LET x == CHOOSE y \in S : TRUE IN <<x>> \o SetToSeq(S \ {x})

RuleCalls(rules) ==
    [i \in 1..Len(rules) |->
        AddCall(rules[i].command, SetToSeq(rules[i].targets),
                SetToSeq(rules[i].depends))]

(***************************************************************************)
(* flows/ise.py: the flow.                                                 *)
(***************************************************************************)
YosysNode ==
    [tool_id |-> "yosys", successors |-> <<"ise">>,
     option_overrides |-> {<<"arch", "xilinx">>, <<"output_format", "edif">>}]
IseNode == [tool_id |-> "ise", successors |-> <<>>, option_overrides |-> {}]

\* Ise.FLOW as the class statement leaves it
ClassFLOW == <<YosysNode, IseNode>>

\* the default of edam.get("flow_options", {}).get("synth", {})
EmptyDict == "{}"

\* faulty variant of FlowInit: the pruned list keeps the yosys stage instead of
\* the ise stage
FlowInit_PruneWrong(cls, flow_options) ==
    IF Get(flow_options, "synth", EmptyDict) # "yosys"
    THEN [cls |-> cls, attr |-> << <<YosysNode>> >>]
    ELSE [cls |-> cls, attr |-> <<>>]

\* faulty variant of FlowInit: the pruned list is assigned to the class attribute
FlowInit_ClassAssign(cls, flow_options) ==
    IF Get(flow_options, "synth", EmptyDict) # "yosys"
    THEN [cls |-> <<IseNode>>, attr |-> <<>>]
    ELSE [cls |-> cls, attr |-> <<>>]

\* faulty variant of FlowInit: the yosys stage is dropped only when synth is "ise"
FlowInit_DropOnIse(cls, flow_options) ==
    IF Get(flow_options, "synth", EmptyDict) = "ise"
    THEN [cls |-> cls, attr |-> << <<IseNode>> >>]
    ELSE [cls |-> cls, attr |-> <<>>]

\* Ise.__init__(edam, ...), up to the call of Edaflow.__init__: the class
\* attribute FLOW afterwards, and the instance attribute FLOW as a sequence
\* of zero (not set) or one (set) stage lists.
FlowInit(cls, flow_options) ==
    IF Get(flow_options, "synth", EmptyDict) # "yosys"
    THEN [cls |-> cls, attr |-> << <<IseNode>> >>]
    ELSE [cls |-> cls, attr |-> <<>>]

\* self.FLOW: the instance attribute when set, else the class attribute
SelfFLOW(cls, inst) == IF inst.FLOW # <<>> THEN inst.FLOW[1] ELSE cls

\* faulty variant of FlowDefaultTarget: another extension than the tool's
FlowDefaultTarget_Bin(n) == n \o ".bin"

\* configure_tools, line 43: the default target the flow sets
FlowDefaultTarget(n) == n \o ".bit"

(***************************************************************************)
(* tools/ise.py: the ise tool.                                             *)
(***************************************************************************)
\* configure, lines 96-125: the loop over self.files.  Gives the exception
\* raised ("ok" when none) and the local list edif_files.  A file is a dict
\* (f.get, f["name"]), so the attribute access f.logical_name on line 104
\* raises AttributeError.
RECURSIVE FileLoop(_, _)
FileLoop(fs, edifs) ==
    IF fs = <<>> THEN [err |-> "ok", edif_files |-> edifs]
    ELSE LET f == Head(fs)
             file_type == f.file_type
         IN IF StartsWith(file_type, "verilogSource")
            THEN FileLoop(Tail(fs), edifs)
            ELSE IF StartsWith(file_type, "systemVerilogSource")
            THEN [err |-> "RuntimeError", edif_files |-> edifs]
            ELSE IF StartsWith(file_type, "vhdlSource")
            THEN [err |-> "AttributeError", edif_files |-> edifs]
            ELSE IF file_type = "edif"
            THEN FileLoop(Tail(fs), Append(edifs, f.name))
            ELSE FileLoop(Tail(fs), edifs)

\* configure, lines 164-168
ise_command == <<"xtclsh">>
project_file(n) == n \o ".xise"
tcl_file(n) == <<n \o ".tcl">>

\* configure, line 183
bitstream(n) == n \o ".bit"

\* configure, line 169: the project file
ProjectRule(n, edifs) ==
    AddCall(ise_command \o tcl_file(n), <<project_file(n)>>,
            tcl_file(n) \o edifs)

\* faulty variant of SynthesisRules: synth depends on the synthesis marker even
\* when no synthesis rule is added
SynthesisRules_AlwaysMarker(n, options, edifs) ==
    LET synth   == Get(options, "synth", "ise")
        depends == <<n \o "_synth.tcl", project_file(n)>>
        marker  == <<n \o "/__synthesis_is_complete__">>
    IN (IF synth = "ise"
        THEN <<AddCall(ise_command \o depends, marker, depends)>>
        ELSE <<>>)
       \o <<AddCall(<<>>, <<"synth">>, marker)>>

\* configure, lines 170-178: synthesis, and the virtual target synth
SynthesisRules(n, options, edifs) ==
    LET synth   == Get(options, "synth", "ise")
        depends == <<n \o "_synth.tcl", project_file(n)>>
        marker  == <<n \o "/__synthesis_is_complete__">>
        targets == IF synth = "ise" THEN marker ELSE edifs
    IN (IF synth = "ise"
        THEN <<AddCall(ise_command \o depends, marker, depends)>>
        ELSE <<>>)
       \o <<AddCall(<<>>, <<"synth">>, targets)>>

\* faulty variant of BitstreamRule: the rule is declared for the project file
BitstreamRule_ProjectTarget(n) ==
    LET run_tcl == n \o "_run.tcl"
        depends == <<run_tcl, project_file(n)>>
    IN AddCall(ise_command \o depends, <<project_file(n)>>, depends)

\* configure, lines 180-184: bitstream generation
BitstreamRule(n) ==
    LET run_tcl == n \o "_run.tcl"
        depends == <<run_tcl, project_file(n)>>
    IN AddCall(ise_command \o depends, <<bitstream(n)>>, depends)

\* configure, line 186
GuiRule(n) ==
    AddCall(<<"ise", project_file(n)>>, <<"build-gui">>, <<project_file(n)>>)

\* configure, lines 188-204: programming
PgmRule(n, options) ==
    LET depends == <<n \o "_pgm.tcl", bitstream(n)>>
        partopt == Get(options, "part", "")
        command == <<"ise", "-quiet", "-nolog", "-notrace", "-mode",
                     "batch", "-source", n \o "_pgm.tcl", "-tclargs">>
                   \o (IF partopt # "" THEN <<partopt>> ELSE <<>>)
                   \o <<bitstream(n)>>
    IN AddCall(command, <<"pgm">>, depends)

\* faulty variant of ConfigureCalls: the graph is written before the pgm rule
\* is added
ConfigureCalls_WriteEarly(n, options, edifs) ==
    <<ProjectRule(n, edifs)>>
    \o SynthesisRules(n, options, edifs)
    \o <<BitstreamRule(n),
         GuiRule(n),
         DefaultCall(bitstream(n)),
         WriteCall,
         PgmRule(n, options)>>

\* configure, lines 161-207: the calls made on the local EdaCommands
\* object, in order.
ConfigureCalls(n, options, edifs) ==
    <<ProjectRule(n, edifs)>>
    \o SynthesisRules(n, options, edifs)
    \o <<BitstreamRule(n),
         GuiRule(n),
         PgmRule(n, options),
         DefaultCall(bitstream(n)),
         WriteCall>>

\* self.args is assigned nowhere in the tool: reading it either raises
\* AttributeError or gives what the base class left there.  The attribute
\* is a sequence of zero (absent) or one (present) argument lists.
NoAttribute == <<>>

\* build, lines 211-219
build(options, args_attr) ==
    LET args == IF Has(options, "pnr")
                THEN IF Get(options, "pnr", "") = "ise" THEN <<>>
                     ELSE IF Get(options, "pnr", "") = "none"
                     THEN <<"synth">>
                     ELSE <<>>
                ELSE <<>>
    IN IF args_attr = NoAttribute
       THEN [err |-> "AttributeError", cmd |-> "", args |-> <<>>]
       ELSE [err |-> "ok", cmd |-> "make", args |-> args_attr[1]]

(***************************************************************************)
(* The flow base class (Edaflow) and the yosys stage.  Their code is not   *)
(* among the sources; they are modelled from sections 4.2 and 6 of the     *)
(* specification and its scenario in section 8.                            *)
(***************************************************************************)
\* resolved options of a stage: global options, overrides winning by key
ResolveOptions(global, overrides) ==
    overrides \cup {p \in global : ~Has(overrides, p[1])}

IsSource(f) ==
    \/ StartsWith(f.file_type, "verilogSource")
    \/ StartsWith(f.file_type, "systemVerilogSource")

\* the synthesis stage: one rule from the design sources to <name>.edif,
\* which replaces the sources among the files handed to the next stage
YosysConfigure(n, fs) ==
    LET srcs == SelectSeq(fs, IsSource)
        rest == SelectSeq(fs, LAMBDA f : ~IsSource(f))
        deps == [i \in 1..Len(srcs) |-> srcs[i].name]
    IN [calls |-> <<AddCall(<<"yosys">> \o deps, <<n \o ".edif">>, deps)>>,
        files |-> rest \o <<[name |-> n \o ".edif", file_type |-> "edif"]>>]

(***************************************************************************)
(* Inputs.                                                                 *)
(***************************************************************************)
Names == {"top", "a"}

FileUniverse ==
    { [name |-> "top.v",    file_type |-> "verilogSource"],
      [name |-> "ext.edif", file_type |-> "edif"],
      [name |-> "top.xise", file_type |-> "edif"],
      [name |-> "top.sv",   file_type |-> "systemVerilogSource"],
      [name |-> "top.vhd",  file_type |-> "vhdlSource"] }

SynthOptions == {{}} \cup {{<<"synth", v>>} : v \in {"ise", "yosys", "none"}}
PnrOptions   == {{}} \cup {{<<"pnr", v>>} : v \in {"ise", "none"}}
PartOptions  == {{}, {<<"part", "xc6slx45">>}}

ArgsAttributes == {NoAttribute, << <<>> >>}

\* the calls a client makes on a command graph
ClientCommands == {<<>>, <<"xtclsh", "top.tcl">>}
ClientTargets  == {<<"top.bit">>, <<"synth">>, <<"synth", "top.bit">>}
ClientDepends  == {<<>>, <<"top.xise">>}
ClientCalls ==
    {AddCall(c, t, d) : c \in ClientCommands, t \in ClientTargets,
                        d \in ClientDepends}
    \cup {DefaultCall(t) : t \in {"top.bit", "synth"}}
    \cup {WriteCall}

(***************************************************************************)
(* State machine.                                                          *)
(***************************************************************************)
NoLast == [call |-> NoCall, err |-> "ok", id |-> <<>>, before |-> EdaCommands]
NoBuild == [err |-> "none", cmd |-> "", args |-> <<>>]

Idle ==
    /\ pc = "idle" /\ node = 0 /\ stage_files = <<>> /\ edif_files = <<>>
    /\ tpos = 0 /\ tg = EdaCommands /\ tool_commands = <<>>
    /\ fg = EdaCommands /\ err = "ok"
    /\ FLOW = ClassFLOW /\ flows = <<>>
    /\ cg = EdaCommands /\ last = NoLast
    /\ build_result = NoBuild

Init ==
    /\ Idle
    /\ scenario \in {"graph", "flow", "build"}
    /\ IF scenario = "flow"
       THEN /\ name \in Names
            /\ files \in SeqsUpTo(FileUniverse, MaxFiles)
            /\ part \in PartOptions
       ELSE /\ name = "top" /\ files = <<>> /\ part = {}
    /\ IF scenario = "build"
       THEN /\ tool_options \in
                  {s \cup p : s \in SynthOptions, p \in PnrOptions}
            /\ self_args \in ArgsAttributes
       ELSE /\ tool_options = {} /\ self_args = NoAttribute

FlowVars == <<FLOW, flows, name, files, part, pc, node, stage_files,
              edif_files, tpos, tg, tool_commands, fg, err>>
BuildVars == <<tool_options, self_args, build_result>>

\* a client calls add, set_default_target or write on the graph
ClientCall(c) ==
    /\ scenario = "graph"
    /\ LET r == Apply(cg, c)
       IN /\ Len(r.g.commands) <= MaxRules
          /\ cg' = r.g
          /\ last' = [call |-> c, err |-> r.err, id |-> r.id, before |-> cg]
    /\ UNCHANGED <<scenario, FlowVars, BuildVars>>

\* flows.Ise(edam, work_root): a flow object is constructed
New(synth_option) ==
    /\ scenario = "flow" /\ pc = "idle"
    /\ Len(flows) < MaxFlows
    /\ LET flow_options == synth_option \cup part
           r == FlowInit(FLOW, flow_options)
       IN /\ FLOW' = r.cls
          /\ flows' = Append(flows, [flow_options |-> flow_options,
                                     FLOW |-> r.attr])
    /\ UNCHANGED <<scenario, cg, last, name, files, part, pc, node,
                   stage_files, edif_files, tpos, tg, tool_commands, fg, err,
                   BuildVars>>

\* the flow being configured, its stage list and the stage at hand
Self == flows[Len(flows)]
Stages == SelfFLOW(FLOW, Self)
Stage == Stages[node]

\* Edaflow.configure begins for the last constructed flow
ConfigureBegin ==
    /\ scenario = "flow" /\ pc = "idle"
    /\ flows # <<>>
    /\ pc' = "stage" /\ node' = 1
    /\ stage_files' = files
    /\ fg' = EdaCommands
    /\ UNCHANGED <<scenario, cg, last, FLOW, flows, name, files, part,
                   edif_files, tpos, tg, tool_commands, err, BuildVars>>

\* configure_tools: the yosys stage contributes its rules
StageYosys ==
    /\ pc = "stage" /\ node <= Len(Stages)
    /\ Stage.tool_id = "yosys"
    /\ LET y == YosysConfigure(name, stage_files)
           r == RunCalls(fg, y.calls)
       IN /\ fg' = r.g
          /\ err' = r.err
          /\ stage_files' = y.files
          /\ IF r.err = "ok"
             THEN pc' = "stage" /\ node' = node + 1
             ELSE pc' = "failed" /\ node' = node
    /\ UNCHANGED <<scenario, cg, last, FLOW, flows, name, files, part,
                   edif_files, tpos, tg, tool_commands, BuildVars>>

\* tools.Ise.configure, lines 87-161: files are sorted, templates rendered
\* and the local graph created
ToolConfigure ==
    /\ pc = "stage" /\ node <= Len(Stages)
    /\ Stage.tool_id = "ise"
    /\ LET l == FileLoop(stage_files, <<>>)
       IN /\ err' = l.err
          /\ IF l.err = "ok"
             THEN /\ pc' = "tool"
                  /\ edif_files' = l.edif_files
             ELSE /\ pc' = "failed"
                  /\ edif_files' = edif_files
    /\ tool_options' =
           ResolveOptions(Self.flow_options, Stage.option_overrides)
    /\ tg' = EdaCommands /\ tpos' = 0
    /\ UNCHANGED <<scenario, cg, last, FLOW, flows, name, files, part, node,
                   stage_files, tool_commands, fg, self_args, build_result>>

\* tools.Ise.configure, lines 169-207: the next call on the local graph
ToolCall ==
    /\ pc = "tool"
    /\ LET calls == ConfigureCalls(name, tool_options, edif_files)
       IN /\ tpos < Len(calls)
          /\ LET r == Apply(tg, calls[tpos + 1])
             IN /\ tg' = r.g
                /\ err' = r.err
                /\ IF r.err = "ok"
                   THEN pc' = "tool" /\ tpos' = tpos + 1
                   ELSE pc' = "failed" /\ tpos' = tpos
    /\ UNCHANGED <<scenario, cg, last, FLOW, flows, name, files, part, node,
                   stage_files, edif_files, tool_commands, fg, BuildVars>>

\* tools.Ise.configure, lines 208-209: the rules are published
ToolPublish ==
    /\ pc = "tool"
    /\ tpos = Len(ConfigureCalls(name, tool_options, edif_files))
    /\ tool_commands' = tg.commands
    /\ pc' = "merge"
    /\ UNCHANGED <<scenario, cg, last, FLOW, flows, name, files, part, node,
                   stage_files, edif_files, tpos, tg, fg, err, BuildVars>>

\* configure_tools: the rules of the configured tool enter the flow's graph
StageMerge ==
    /\ pc = "merge"
    /\ LET r == RunCalls(fg, RuleCalls(tool_commands))
       IN /\ fg' = r.g
          /\ err' = r.err
          /\ IF r.err = "ok"
             THEN pc' = "stage" /\ node' = node + 1
             ELSE pc' = "failed" /\ node' = node
    /\ UNCHANGED <<scenario, cg, last, FLOW, flows, name, files, part,
                   stage_files, edif_files, tpos, tg, tool_commands,
                   BuildVars>>

\* flows.Ise.configure_tools, lines 42-43, after the stages are configured
FlowSetDefault ==
    /\ pc = "stage" /\ node > Len(Stages)
    /\ LET r == set_default_target(fg, FlowDefaultTarget(name))
       IN /\ fg' = r.g
          /\ err' = r.err
          /\ pc' = IF r.err = "ok" THEN "write" ELSE "failed"
    /\ UNCHANGED <<scenario, cg, last, FLOW, flows, name, files, part, node,
                   stage_files, edif_files, tpos, tg, tool_commands,
                   BuildVars>>

\* Edaflow.configure ends: the flow's graph is written
FlowWrite ==
    /\ pc = "write"
    /\ LET r == write(fg)
       IN /\ fg' = r.g
          /\ err' = r.err
    /\ pc' = "done"
    /\ UNCHANGED <<scenario, cg, last, FLOW, flows, name, files, part, node,
                   stage_files, edif_files, tpos, tg, tool_commands,
                   BuildVars>>

\* tools.Ise.build() on a tool with the given options
Build ==
    /\ scenario = "build"
    /\ build_result = NoBuild
    /\ build_result' = build(tool_options, self_args)
    /\ UNCHANGED <<scenario, cg, last, FlowVars, tool_options, self_args>>

Next ==
    \/ \E c \in ClientCalls : ClientCall(c)
    \/ \E s \in SynthOptions : New(s)
    \/ ConfigureBegin
    \/ StageYosys
    \/ ToolConfigure
    \/ ToolCall
    \/ ToolPublish
    \/ StageMerge
    \/ FlowSetDefault
    \/ FlowWrite
    \/ Build

Spec == Init /\ [][Next]_vars

(***************************************************************************)
(* Vocabulary of the properties.                                           *)
(***************************************************************************)
Graphs == {cg, tg, fg, last.before}

\* the rule the last client call asked to add
LastRule == Rule(last.call.command, last.call.targets, last.call.depends)

\* the last client call was an add naming a target that a rule of the
\* graph declared with another command or other dependencies
LastAddClashes ==
    /\ last.call.op = "add"
    /\ \E r \in Range(last.before.commands) :
          /\ r.targets \cap LastRule.targets # {}
          /\ (r.command # LastRule.command \/ r.depends # LastRule.depends)

\* any two rules of g sharing a target have the same recipe
Consistent(g) ==
    \A r1, r2 \in Range(g.commands) :
        r1.targets \cap r2.targets # {} =>
            r1.command = r2.command /\ r1.depends = r2.depends

\* the calls of the ise tool's configure in the current state
ToolCalls == ConfigureCalls(name, tool_options, edif_files)
AddsOf(calls) == {i \in 1..Len(calls) : calls[i].op = "add"}

\* the ise tool's configure has made all its calls
ToolConfigured == scenario = "flow" /\ pc \in {"merge", "stage", "write", "done"}
                    /\ tg.default_target # <<>>

(***************************************************************************)
(* C1                                                                      *)
(***************************************************************************)
\* C1: an add on an open graph that names a target of an earlier rule with
\* another command or other dependencies fails with ConflictingRule, names
\* such a target and adds nothing; so in every graph two rules sharing a
\* target have the same command and dependencies.  The adds of the ise
\* tool's configure never conflict: each of them appends its rule.
C1_ConflictingRule ==
    /\ (LastAddClashes /\ ~last.before.finalized) =>
          /\ last.err = "ConflictingRule"
          /\ Len(last.id) = 1
          /\ last.id[1] \in LastRule.targets
          /\ \E r \in Range(last.before.commands) :
                /\ last.id[1] \in r.targets
                /\ (r.command # LastRule.command
                     \/ r.depends # LastRule.depends)
          /\ cg = last.before
    /\ \A g \in Graphs : Consistent(g)
    /\ err # "ConflictingRule"
    /\ pc = "tool" =>
          Len(tg.commands) = Cardinality({i \in AddsOf(ToolCalls) : i <= tpos})
    /\ ToolConfigured =>
          Len(tg.commands) = Cardinality(AddsOf(ToolCalls))

C1_Witness ==
    /\ scenario = "graph"
    /\ LastAddClashes
    /\ last.err = "ConflictingRule"
    /\ last.id = <<"synth">>

(***************************************************************************)
(* C2                                                                      *)
(***************************************************************************)
\* C2: a default target, once set, never changes: set_default_target with
\* another value fails with DefaultTargetAlreadySet and changes nothing,
\* with the same value it succeeds.  In an ise flow configuration the tool
\* sets <name>.bit on its graph and the flow then sets the same identifier
\* on the flow's graph; neither call fails.
C2_DefaultTargetImmutable ==
    /\ last.before.default_target # <<>> =>
          cg.default_target = last.before.default_target
    /\ (last.call.op = "set_default_target"
          /\ last.before.default_target # <<>>) =>
          IF last.before.default_target = <<last.call.target>>
          THEN last.err = "ok" /\ cg = last.before
          ELSE last.err = "DefaultTargetAlreadySet" /\ cg = last.before
    /\ err # "DefaultTargetAlreadySet"
    /\ tg.default_target \in {<<>>, <<name \o ".bit">>}
    /\ fg.default_target \in {<<>>, tg.default_target}
    /\ pc \in {"write", "done"} =>
          fg.default_target = <<name \o ".bit">>

C2_Witness ==
    /\ scenario = "graph"
    /\ last.call.op = "set_default_target"
    /\ last.err = "DefaultTargetAlreadySet"
    /\ cg.default_target = <<"top.bit">>
    /\ last.call.target = "synth"

(***************************************************************************)
(* C3                                                                      *)
(***************************************************************************)
\* C3: a graph starts Open and is Finalized once write was called; an add
\* after that fails with GraphFinalized and leaves the rules unchanged.  In
\* an ise flow configuration no add reaches a written graph: the tool's
\* only write is the last of its calls, and the flow writes its graph after
\* the rules of all stages are in.
C3_Finalized ==
    /\ last.call.op = "none" => ~cg.finalized
    /\ last.call.op = "write" => cg.finalized
    /\ last.before.finalized => cg.finalized
    /\ (last.call.op = "add" /\ last.before.finalized) =>
          /\ last.err = "GraphFinalized"
          /\ cg.commands = last.before.commands
    /\ err # "GraphFinalized"
    /\ pc = "tool" =>
          /\ \A i \in 1..Len(ToolCalls) :
                ToolCalls[i].op = "write" <=> i = Len(ToolCalls)
          /\ tg.finalized <=> tpos = Len(ToolCalls)
    /\ ToolConfigured =>
          /\ tg.finalized
          /\ Len(tg.commands) = Cardinality(AddsOf(ToolCalls))
          /\ tool_commands = tg.commands
    /\ fg.finalized <=> (scenario = "flow" /\ pc = "done")

C3_Witness ==
    /\ scenario = "graph"
    /\ last.call.op = "add"
    /\ last.before.finalized
    /\ last.before.commands # <<>>
    /\ last.err = "GraphFinalized"

(***************************************************************************)
(* C4                                                                      *)
(***************************************************************************)
\* C4: adding to an open graph a rule it already holds (same targets, same
\* command, same dependencies) succeeds and leaves the rules, their order
\* and the default target as they were.
C4_AddIdempotent ==
    (/\ last.call.op = "add"
     /\ ~last.before.finalized
     /\ LastRule \in Range(last.before.commands)) =>
        /\ last.err = "ok"
        /\ cg.commands = last.before.commands
        /\ cg.default_target = last.before.default_target
        /\ cg = last.before

C4_Witness ==
    /\ scenario = "graph"
    /\ last.call.op = "add"
    /\ ~last.before.finalized
    /\ LastRule \in Range(last.before.commands)
    /\ Len(last.before.commands) = 2
    /\ last.err = "ok"

(***************************************************************************)
(* C5                                                                      *)
(***************************************************************************)
IsTarget(g, t) == \E r \in Range(g.commands) : t \in r.targets
DepsOf(g, t) == UNION {r.depends : r \in {x \in Range(g.commands) : t \in x.targets}}

\* the identifiers reachable from those of S by following dependencies
RECURSIVE Closure(_, _)
Closure(g, S) ==
    LET N == S \cup UNION {DepsOf(g, t) : t \in S}
    IN IF N = S THEN S ELSE Closure(g, N)

\* the files configure was given or has rendered
SuppliedFiles ==
    {name \o "_run.tcl", name \o ".tcl", name \o "_synth.tcl"}
    \cup {f.name : f \in Range(stage_files)}

\* C5: in the graph the ise tool's configure wrote, every identifier
\* reachable from the default target <name>.bit is a target of a rule or a
\* file given to or rendered by configure, and none of them depends on
\* itself through a chain of dependencies.
C5_NoDanglingNoCycle ==
    ToolConfigured =>
        LET reach == Closure(tg, Range(tg.default_target))
        IN /\ tg.default_target = <<name \o ".bit">>
           /\ \A t \in reach : IsTarget(tg, t) \/ t \in SuppliedFiles
           /\ \A t \in reach : t \notin Closure(tg, DepsOf(tg, t))

(***************************************************************************)
(* C6                                                                      *)
(***************************************************************************)
\* the edif files among the files handed to the ise tool
SuppliedEdif ==
    {f.name : f \in {x \in Range(stage_files) : x.file_type = "edif"}}

RulesFor(g, t) == {r \in Range(g.commands) : t \in r.targets}

\* the flow being configured has no yosys stage
YosysElided == scenario = "flow" /\ pc # "idle" /\ "yosys" \notin
                   {Stages[i].tool_id : i \in 1..Len(Stages)}

\* configure ended with an exception other than one raised for the type of
\* a supplied file (lines 102 and 104)
FailedOtherwise ==
    /\ pc = "failed"
    /\ ~(/\ err \in {"RuntimeError", "AttributeError"}
          /\ \E f \in Range(stage_files) :
                \/ StartsWith(f.file_type, "systemVerilogSource")
                \/ StartsWith(f.file_type, "vhdlSource"))

\* the graph the tool wrote has no synthesis rule, and its virtual target
\* synth depends on exactly the supplied edif files
NoSynthesisRule ==
    /\ RulesFor(tg, name \o "/__synthesis_is_complete__") = {}
    /\ RulesFor(tg, "synth") # {}
    /\ \A r \in RulesFor(tg, "synth") :
          r.depends = SuppliedEdif /\ r.command = <<>>

\* the graph the tool wrote has the synthesis rule, and its virtual target
\* synth depends on the synthesis marker
SynthesisRule ==
    /\ RulesFor(tg, name \o "/__synthesis_is_complete__") # {}
    /\ \A r \in RulesFor(tg, name \o "/__synthesis_is_complete__") :
          r.depends = {name \o "_synth.tcl", name \o ".xise"}
    /\ RulesFor(tg, "synth") # {}
    /\ \A r \in RulesFor(tg, "synth") :
          /\ r.depends = {name \o "/__synthesis_is_complete__"}
          /\ r.command = <<>>

\* the project-file rule depends on the project script and on the
\* supplied edif files
ProjectDependsOnEdif ==
    /\ RulesFor(tg, name \o ".xise") # {}
    /\ \A r \in RulesFor(tg, name \o ".xise") :
          r.depends = {name \o ".tcl"} \cup SuppliedEdif

\* C6 as stated: when the yosys stage is elided and an edif file is
\* supplied, configuration fails for no missing predecessor output, the
\* tool adds no synthesis rule, the project-file rule depends on the edif
\* files and synth depends on exactly the supplied edif files.
C6_ElidedStageNoSynthesis ==
    (YosysElided /\ SuppliedEdif # {}) =>
        /\ ~FailedOtherwise
        /\ ToolConfigured => /\ ProjectDependsOnEdif
                             /\ NoSynthesisRule

\* C6 as amended: when the yosys stage is elided and an edif file is
\* supplied, configuration fails only for the type of a supplied file and
\* the project-file rule depends on the edif files; the tool adds no
\* synthesis rule, and synth depends on exactly the supplied edif files,
\* when the synth option has a value other than "ise"; with the option
\* absent or "ise" the tool adds the synthesis rule and synth depends on
\* the synthesis marker.
C6_ExternalNetlist ==
    (YosysElided /\ SuppliedEdif # {}) =>
        /\ ~FailedOtherwise
        /\ ToolConfigured =>
              /\ ProjectDependsOnEdif
              /\ IF Get(Self.flow_options, "synth", "ise") # "ise"
                 THEN NoSynthesisRule
                 ELSE SynthesisRule

C6_Witness ==
    /\ scenario = "flow" /\ pc = "done"
    /\ Len(Stages) = 1
    /\ Get(tool_options, "synth", "ise") = "none"
    /\ files = <<[name |-> "ext.edif", file_type |-> "edif"],
                 [name |-> "top.v", file_type |-> "verilogSource"]>>
    /\ \E r \in RulesFor(tg, "synth") : r.depends = {"ext.edif"}

(***************************************************************************)
(* C7                                                                      *)
(***************************************************************************)
ToolIds(st) == {st[i].tool_id : i \in 1..Len(st)}

\* st lists every stage after the stages naming it as a successor, and no
\* stage of st names a successor missing from st
Topological(st) ==
    /\ \A i, j \in 1..Len(st) :
          st[j].tool_id \in Range(st[i].successors) => i < j
    /\ \A i \in 1..Len(st) : Range(st[i].successors) \subseteq ToolIds(st)

\* C7: the stage list of every constructed flow, pruned or not, is a
\* topological order of the successor relation with no successor missing,
\* and the stages are configured in that order.
C7_TopologicalStages ==
    /\ \A k \in 1..Len(flows) : Topological(SelfFLOW(FLOW, flows[k]))
    /\ \A k \in 1..Len(flows) : SelfFLOW(FLOW, flows[k]) # <<>>
    /\ pc # "idle" => node \in 1..(Len(Stages) + 1)
    /\ pc \in {"tool", "merge"} =>
          node = Len(Stages) /\ Stage.tool_id = "ise"

C7_Witness ==
    /\ Len(flows) = 2
    /\ Len(SelfFLOW(FLOW, flows[1])) = 1
    /\ Len(SelfFLOW(FLOW, flows[2])) = 2
    /\ pc = "tool" /\ node = 2

(***************************************************************************)
(* C8                                                                      *)
(***************************************************************************)
\* C8: build returns a make invocation that requests the target synth
\* when the pnr option is "none", and no target when pnr is absent or
\* "ise".
C8_BuildTargets ==
    build_result # NoBuild =>
        /\ build_result.err = "ok"
        /\ build_result.cmd = "make"
        /\ build_result.args =
              IF Get(tool_options, "pnr", "ise") = "none"
              THEN <<"synth">> ELSE <<>>

(***************************************************************************)
(* C9                                                                      *)
(***************************************************************************)
\* the stage list a flow with the given options has when it is the only
\* flow ever constructed
StagesAlone(flow_options) ==
    LET r == FlowInit(ClassFLOW, flow_options)
    IN SelfFLOW(r.cls, [flow_options |-> flow_options, FLOW |-> r.attr])

\* C9: constructing flows never changes the class-level stage list, and
\* the stage list of every flow is the one its own options give, whatever
\* flows were constructed before or after it.
C9_RegistryReadOnly ==
    /\ FLOW = <<YosysNode, IseNode>>
    /\ \A k \in 1..Len(flows) :
          SelfFLOW(FLOW, flows[k]) = StagesAlone(flows[k].flow_options)

C9_Witness ==
    /\ Len(flows) = 2
    /\ Get(flows[1].flow_options, "synth", EmptyDict) = "yosys"
    /\ Get(flows[2].flow_options, "synth", EmptyDict) = "ise"
    /\ SelfFLOW(FLOW, flows[1]) = <<YosysNode, IseNode>>

(***************************************************************************)
(* C10                                                                     *)
(***************************************************************************)
HasYosys(k) == "yosys" \in ToolIds(SelfFLOW(FLOW, flows[k]))
SynthOf(k) == Get(flows[k].flow_options, "synth", EmptyDict)

\* C10 as stated: a flow whose synth option is absent or neither "ise" nor
\* "yosys" keeps the yosys stage.
C10_DefaultsToInclusion ==
    \A k \in 1..Len(flows) :
        SynthOf(k) \notin {"ise", "yosys"} => HasYosys(k)

\* C10 as amended: a flow keeps the yosys stage exactly when its synth
\* option is "yosys"; with the option absent or any other value the stage
\* list is the ise stage alone.
C10_YosysOnlyOnRequest ==
    \A k \in 1..Len(flows) :
        /\ HasYosys(k) <=> SynthOf(k) = "yosys"
        /\ SynthOf(k) # "yosys" => SelfFLOW(FLOW, flows[k]) = <<IseNode>>

C10_Witness ==
    \E k \in 1..Len(flows) :
        /\ SynthOf(k) = "none"
        /\ SelfFLOW(FLOW, flows[k]) = <<IseNode>>
        /\ \E j \in 1..Len(flows) : SynthOf(j) = EmptyDict /\ ~HasYosys(j)

====
